---- MODULE Spec2Model ----
(***************************************************************************)
(* The duplex audio-channel arbitration of src/client5_fc4_c4.py: the      *)
(* query / context recording flags, the shared capture stream handle, the  *)
(* playback gate and queue, and the threads that touch them (one thread    *)
(* per button event, the PortAudio capture callback of every started       *)
(* input stream, the socket.io receive thread, the playback worker).       *)
(* Beside it, the one-button client of src/client5_f4_button.py: the       *)
(* toggle button, its recording queue and chunked upload, and its reply    *)
(* playback threads.                                                       *)
(*                                                                         *)
(* client5_fc4_c4.py has no lock, so every step below is one statement of  *)
(* the source (one read or one write of a shared name); a thread's         *)
(* position is the source line it is about to execute.  In                 *)
(* client5_f4_button.py a "with lock:" block is one step.                  *)
(***************************************************************************)
EXTENDS Naturals, Sequences, FiniteSets, Bags

\* ------------------------------------------------------------------ bounds
MaxStreams == 3      \* capture streams that may be open or referenced at once
MaxThreads == 2      \* button handler threads alive at once
MaxChunks == 2       \* server reply chunks delivered in one behaviour
MaxHist == 4         \* control events remembered in hist
MaxLog == 4          \* capture device opens and closes remembered in devlog
MaxQuitEvents == 2   \* control events in a behaviour in which the operator quits

MaxFrames == 2       \* client5_f4_button.py: frames captured in one behaviour
MaxSessions == 2     \* client5_f4_button.py: recordings started in one behaviour
MaxPresses == 3      \* client5_f4_button.py: presses of the toggle button
MaxSenders == 2      \* client5_f4_button.py: stop_and_send threads alive at once
MaxAudio == 1        \* client5_f4_button.py: server_audio messages received
FrameLen == 2        \* bytes in one captured frame
MaxChunkSize == 5    \* largest upload chunk size tried, in bytes

Streams == 1..MaxStreams
Chunks == 1..MaxChunks
None == 0

VARIABLES
    recording,                \* line 89
    stream,                   \* line 90: None or the InputStream the handle names
    context_active,           \* line 91
    context_paused,           \* line 92
    playback_enabled,         \* line 40: the Event's flag
    playback_queue,           \* line 39
    playback_worker_running,  \* line 41: the Event's flag
    streamState,              \* every InputStream object: "closed", "stopped", "active"
    threads,                  \* the handler threads setup_button started (a bag)
    held,                     \* button 1 is down: its last event was a press
    cb,                       \* position of each stream's capture callback
    srv,                      \* the socket.io receive thread
    worker,                   \* the playback worker thread
    wire,                     \* what was last emitted to the server
    written,                  \* chunks written to the output stream, in order
    chunkInfo,                \* per reply chunk: how it was received (put), whether
                              \* it was waiting when a query started (pre), and whether
                              \* it was on the queue when a StartQuery arrived and
                              \* still unplayed when the StopQuery re-enabled playback (old)
    hist,                     \* the control events so far (at most MaxHist)
    devlog,                   \* the capture device opens and closes so far (at most MaxLog)
    main,                     \* the main thread: the source line it is at, "run" while
                              \* it waits for input (213), "exit" once the process is over
    fault,                    \* the last control event, the flags it met (snap), and
                              \* whether its handler saw a device open or an emit fail
    \* src/client5_f4_button.py
    tg_recording,             \* line 104: recording
    tg_stream,                \* line 105: stream, None or the InputStream it names
    tg_streamState,           \* every InputStream object of this client
    audio_queue,              \* line 102: the captured frames, each a sequence of bytes
    playing,                  \* line 47: _playing
    playback_thread,          \* line 46: _playback_thread, None or a play_audio thread
    presser,                  \* the gpiozero thread that runs on_press_toggle
    sender,                   \* the stop_and_send threads, and the main thread once
                              \* run_client has been interrupted (lines 256-274)
    player,                   \* the play_audio thread of every server_audio message
    device,                   \* what sounddevice is playing: None or a message
    chunk_size,               \* line 29: CHUNK_SIZE (chunk_size in client4.py, line 87)
    session,                  \* recordings started so far
    presses,                  \* presses of the button so far
    captured,                 \* every frame put on audio_queue, in capture order
    sent,                     \* every message emitted to the server, in order
    lost,                     \* frames _drain_audio_queue took off the queue
    stale                     \* messages received before the last start_recording call

fcVars == <<recording, stream, context_active, context_paused, playback_enabled,
            playback_queue, playback_worker_running, streamState, threads, held,
            cb, srv, worker, wire, written, chunkInfo, hist, devlog, main, fault>>

toggleVars == <<tg_recording, tg_stream, tg_streamState, audio_queue, playing,
                playback_thread, presser, sender, player, device, chunk_size,
                session, presses, captured, sent, lost, stale>>

vars == <<fcVars, toggleVars>>

flagVars == <<recording, context_active, context_paused>>
playVars == <<playback_enabled, playback_queue, playback_worker_running,
              srv, worker, written, chunkInfo>>

\* ----------------------------------------------------------------- helpers
\* A thread running a handler: where it is, the stream object it has created
\* and not yet stored, the value it has read and not yet stored, and whether
\* it is the main thread, calling the handler from run_client (219, 221).
Thread(pc) == [pc |-> pc, new |-> None, rd |-> FALSE, inmain |-> FALSE]

MainCall(pc) == [Thread(pc) EXCEPT !.inmain = TRUE]

Running == BagToSet(threads)

Move(t, pc) == threads' = (threads (-) SetToBag({t})) (+) SetToBag({[t EXCEPT !.pc = pc]})

MoveWith(t, t2) == threads' = (threads (-) SetToBag({t})) (+) SetToBag({t2})

\* The function returns, or an uncaught exception ends the thread.
Exit(t) == threads' = threads (-) SetToBag({t})

Overflow == <<"...">>

Record(e) == IF hist # Overflow /\ Len(hist) < MaxHist THEN Append(hist, e) ELSE Overflow

Log(e) == IF devlog # Overflow /\ Len(devlog) < MaxLog THEN Append(devlog, e) ELSE Overflow

\* sio.emit(msg): the message goes out, stamped with the flag values of its moment.
Emit(msg) ==
    wire' = [last |-> msg,
             rec |-> recording,
             qdone |-> (msg = "audio_complete_query") \/ wire.qdone,
             cdone |-> (msg = "audio_complete_context") \/ wire.cdone]

\* A stream object is live while PortAudio holds it open or a name refers to it.
Live == {s \in Streams : \/ streamState[s] # "closed"
                         \/ stream = s
                         \/ \E t \in Running : t.new = s}

\* Threads that have yet to reach their sd.InputStream(...) call.
BeforeOpen == {"114", "116", "118", "121", "122", "124",
               "177", "151", "153", "154a", "154b", "155a", "155b", "155c", "156"}

Pending == BagCardinality([t \in {x \in Running : x.pc \in BeforeOpen} |-> threads[t]])

Fresh == CHOOSE s \in Streams \ Live : \A r \in Streams \ Live : s <= r

CanSpawn == /\ BagCardinality(threads) < MaxThreads
            /\ Cardinality(Live) + Pending < MaxStreams

Spawn(pc) == threads' = threads (+) SetToBag({Thread(pc)})

InQueue(c) == \E i \in 1..Len(playback_queue) : playback_queue[i] = c

\* A StartQuery arrives: the reply chunks on the queue at this moment are noted.
NoteQueued ==
    chunkInfo' = [c \in Chunks |->
        IF InQueue(c) THEN [chunkInfo[c] EXCEPT !.old = "queued"] ELSE chunkInfo[c]]

\* ------------------------------------------------------------------- Init
TgStreams == 1..MaxSessions
Senders == 1..MaxSenders

\* The threads that call stop_recording and send_audio_to_server: the
\* stop_and_send threads and, last, the main thread in run_client (264-266).
MainCaller == MaxSenders + 1
Callers == Senders \cup {MainCaller}

\* error: line 193 ran in the caller's last upload ("Error sending audio:")
NotSending == [pc |-> "none", chunks |-> << >>, at |-> 0, error |-> FALSE]
Audios == 1..MaxAudio
Bytes == 1..2
Frames == [1..FrameLen -> Bytes]

\* 26-29: CHUNK_SIZE = 4096 bytes is two frames of BLOCKSIZE = 1024 int16 samples
CHUNK_SIZE == 2 * FrameLen

NoFault == [event |-> "none", snap |-> <<FALSE, FALSE, FALSE>>,
            open |-> FALSE, emit |-> FALSE]

\* client5_fc4_c4.py after construction: the playback worker has opened its
\* output stream and run_client waits for input
FcInit ==
    /\ recording = FALSE
    /\ stream = None
    /\ context_active = FALSE
    /\ context_paused = FALSE
    /\ playback_enabled = FALSE
    /\ playback_queue = << >>
    /\ playback_worker_running = TRUE
    /\ streamState = [s \in Streams |-> "closed"]
    /\ threads = EmptyBag
    /\ held = FALSE
    /\ cb = [s \in Streams |-> "idle"]
    /\ srv = [pc |-> "idle", chunk |-> None, enabled |-> FALSE]
    /\ worker = [pc |-> "63", arr |-> None]
    /\ wire = [last |-> "none", rec |-> FALSE, qdone |-> FALSE, cdone |-> FALSE]
    /\ written = << >>
    /\ chunkInfo = [c \in Chunks |-> [put |-> "none", pre |-> FALSE, old |-> "no"]]
    /\ hist = << >>
    /\ devlog = << >>
    /\ main = "run"
    /\ fault = NoFault

\* client5_f4_button.py after construction, but for the queue and the chunk size
TgIdle ==
    /\ tg_recording = FALSE
    /\ tg_stream = None
    /\ tg_streamState = [s \in TgStreams |-> "closed"]
    /\ playing = FALSE
    /\ playback_thread = None
    /\ presser = [pc |-> "idle", new |-> None]
    /\ player = [a \in Audios |-> "none"]
    /\ device = None
    /\ session = 0
    /\ presses = 0
    /\ sent = << >>
    /\ lost = {}
    /\ stale = {}

TgInit ==
    /\ TgIdle
    /\ audio_queue = << >>
    /\ captured = << >>
    /\ chunk_size = CHUNK_SIZE
    /\ sender = [i \in Callers |-> NotSending]

Init == FcInit /\ TgInit

\* client5_fc4_c4.py as line 82 has started the playback worker thread: the
\* worker has yet to open its output stream, the main thread is at the wait
\* loop of line 83, nothing else has run
FcBoot ==
    /\ recording = FALSE
    /\ stream = None
    /\ context_active = FALSE
    /\ context_paused = FALSE
    /\ playback_enabled = FALSE
    /\ playback_queue = << >>
    /\ playback_worker_running = FALSE
    /\ streamState = [s \in Streams |-> "closed"]
    /\ threads = EmptyBag
    /\ held = FALSE
    /\ cb = [s \in Streams |-> "idle"]
    /\ srv = [pc |-> "idle", chunk |-> None, enabled |-> FALSE]
    /\ worker = [pc |-> "60", arr |-> None]
    /\ wire = [last |-> "none", rec |-> FALSE, qdone |-> FALSE, cdone |-> FALSE]
    /\ written = << >>
    /\ chunkInfo = [c \in Chunks |-> [put |-> "none", pre |-> FALSE, old |-> "no"]]
    /\ hist = << >>
    /\ devlog = << >>
    /\ main = "83"
    /\ fault = NoFault

BootInit == FcBoot /\ TgInit

\* ------------------------------------------------ start_recording, 112-128
\* Lines 114-115 left out: a StartQuery during a query starts over.
start_114_noreturn(t) ==
    /\ t.pc = "114"
    /\ Move(t, "116")
    /\ UNCHANGED <<toggleVars, main, fault, flagVars, stream, streamState, devlog, held, cb, wire, hist, playVars>>

\* 114-115: if recording: return
start_114(t) ==
    /\ t.pc = "114"
    /\ IF recording THEN Exit(t) ELSE Move(t, "116")
    /\ UNCHANGED <<toggleVars, main, fault, flagVars, stream, streamState, devlog, held, cb, wire, hist, playVars>>

\* 116: playback_enabled.clear()
start_116(t) ==
    /\ t.pc = "116"
    /\ playback_enabled' = FALSE
    /\ Move(t, "118")
    /\ UNCHANGED <<toggleVars, main, fault, flagVars, stream, streamState, devlog, held, cb, wire, hist,
                   playback_queue, playback_worker_running, srv, worker, written, chunkInfo>>

\* 117-120: sio.emit("stop_server_stream"), any exception swallowed
start_118(t) ==
    /\ t.pc = "118"
    /\ Emit("stop_server_stream")
    /\ Move(t, "121")
    /\ UNCHANGED <<toggleVars, main, fault, flagVars, stream, streamState, devlog, held, cb, hist, playVars>>

\* 121: if context_active:
start_121(t) ==
    /\ t.pc = "121"
    /\ Move(t, IF context_active THEN "122" ELSE "124")
    /\ UNCHANGED <<toggleVars, main, fault, flagVars, stream, streamState, devlog, held, cb, wire, hist, playVars>>

\* 122: context_paused = True
start_122(t) ==
    /\ t.pc = "122"
    /\ context_paused' = TRUE
    /\ Move(t, "124")
    /\ UNCHANGED <<toggleVars, main, fault, recording, context_active, stream, streamState, devlog, held, cb, wire,
                   hist, playVars>>

\* 124-125, right-hand side: sd.InputStream(...) opens a new stream, not started
OpenInput(t, next) ==
    /\ streamState' = [streamState EXCEPT ![Fresh] = "stopped"]
    /\ devlog' = Log("open")
    /\ MoveWith(t, [t EXCEPT !.pc = next, !.new = Fresh])

start_124(t) ==
    /\ t.pc = "124"
    /\ OpenInput(t, "125")
    /\ UNCHANGED <<toggleVars, main, fault, flagVars, stream, held, cb, wire, hist, playVars>>

\* 124-125, the assignment: stream = <the new object>; the old object, if any,
\* is only forgotten: sounddevice closes a stream on close(), not on collection.
StoreStream(t, next) ==
    /\ stream' = t.new
    /\ MoveWith(t, [t EXCEPT !.pc = next, !.new = None])

start_125(t) ==
    /\ t.pc = "125"
    /\ StoreStream(t, "126")
    /\ UNCHANGED <<toggleVars, main, fault, flagVars, streamState, devlog, held, cb, wire, hist, playVars>>

\* stream.start() on whatever the global names now: AttributeError on None,
\* PortAudioError unless the stream is open and stopped.
StartStream(t, next) ==
    IF stream # None /\ streamState[stream] = "stopped"
    THEN /\ streamState' = [streamState EXCEPT ![stream] = "active"]
         /\ UNCHANGED devlog
         /\ Move(t, next)
    ELSE /\ UNCHANGED <<streamState, devlog>>
         /\ Exit(t)

\* 126: stream.start()
start_126(t) ==
    /\ t.pc = "126"
    /\ StartStream(t, "127")
    /\ UNCHANGED <<toggleVars, main, fault, flagVars, stream, held, cb, wire, hist, playVars>>

\* 127: recording = True, and the function returns: the query has started, and
\* (button 1 still down: no StopQuery has followed) the reply chunks waiting
\* in the queue at this moment are noted.
start_127(t) ==
    /\ t.pc = "127"
    /\ recording' = TRUE
    /\ Exit(t)
    /\ chunkInfo' = [c \in Chunks |->
            [chunkInfo[c] EXCEPT !.pre = @ \/ (held /\ InQueue(c))]]
    /\ UNCHANGED <<toggleVars, main, fault, context_active, context_paused, stream, streamState, devlog, held, cb,
                   wire, hist, playback_enabled, playback_queue,
                   playback_worker_running, srv, worker, written>>

start_recording(t) ==
    \/ start_114(t) \/ start_116(t) \/ start_118(t) \/ start_121(t) \/ start_122(t)
    \/ start_124(t) \/ start_125(t) \/ start_126(t) \/ start_127(t)

\* ------------------------------------------------- stop_recording, 130-144
\* 132-133: if not recording: return
stop_132(t) ==
    /\ t.pc = "132"
    /\ IF recording THEN Move(t, "134") ELSE Exit(t)
    /\ UNCHANGED <<toggleVars, main, fault, flagVars, stream, streamState, devlog, held, cb, wire, hist, playVars>>

\* 134: recording = False
stop_134(t) ==
    /\ t.pc = "134"
    /\ recording' = FALSE
    /\ Move(t, "135")
    /\ UNCHANGED <<toggleVars, main, fault, context_active, context_paused, stream, streamState, devlog, held, cb,
                   wire, hist, playVars>>

\* 135: if stream:
stop_135(t) ==
    /\ t.pc = "135"
    /\ Move(t, IF stream # None THEN "136" ELSE "140")
    /\ UNCHANGED <<toggleVars, main, fault, flagVars, stream, streamState, devlog, held, cb, wire, hist, playVars>>

\* stream.stop() on whatever the global names now: AttributeError on None;
\* Pa_StopStream returns once the stream's callback has returned, and
\* sounddevice ignores its error code (a stream already stopped or closed).
StopStream(t, next) ==
    IF stream = None
    THEN /\ UNCHANGED <<streamState, devlog>>
         /\ Exit(t)
    ELSE /\ cb[stream] = "idle"
         /\ streamState' = [streamState EXCEPT
                ![stream] = IF @ = "active" THEN "stopped" ELSE @]
         /\ UNCHANGED devlog
         /\ Move(t, next)

\* stream.close(): as stop(), and the stream is no longer open.
CloseStream(t, next) ==
    IF stream = None
    THEN /\ UNCHANGED <<streamState, devlog>>
         /\ Exit(t)
    ELSE /\ cb[stream] = "idle"
         /\ streamState' = [streamState EXCEPT ![stream] = "closed"]
         /\ devlog' = IF streamState[stream] = "closed" THEN devlog ELSE Log("close")
         /\ Move(t, next)

\* 136: stream.stop()
stop_136(t) ==
    /\ t.pc = "136"
    /\ StopStream(t, "137")
    /\ UNCHANGED <<toggleVars, main, fault, flagVars, stream, held, cb, wire, hist, playVars>>

\* 137: stream.close()
stop_137(t) ==
    /\ t.pc = "137"
    /\ CloseStream(t, "138")
    /\ UNCHANGED <<toggleVars, main, fault, flagVars, stream, held, cb, wire, hist, playVars>>

\* 138: stream = None
stop_138(t) ==
    /\ t.pc = "138"
    /\ stream' = None
    /\ Move(t, "140")
    /\ UNCHANGED <<toggleVars, main, fault, flagVars, streamState, devlog, held, cb, wire, hist, playVars>>

\* 139-142: sio.emit("audio_complete_query"), any exception swallowed
stop_140(t) ==
    /\ t.pc = "140"
    /\ Emit("audio_complete_query")
    /\ Move(t, "144")
    /\ UNCHANGED <<toggleVars, main, fault, flagVars, stream, streamState, devlog, held, cb, hist, playVars>>

\* 144: playback_enabled.set()
stop_144(t) ==
    /\ t.pc = "144"
    /\ playback_enabled' = TRUE
    /\ Exit(t)
    /\ chunkInfo' = [c \in Chunks |->
            IF chunkInfo[c].old = "queued" /\ \A i \in 1..Len(written) : written[i] # c
            THEN [chunkInfo[c] EXCEPT !.old = "kept"]
            ELSE chunkInfo[c]]
    /\ UNCHANGED <<toggleVars, main, fault, flagVars, stream, streamState, devlog, held, cb, wire, hist,
                   playback_queue, playback_worker_running, srv, worker, written>>

stop_recording(t) ==
    \/ stop_132(t) \/ stop_134(t) \/ stop_135(t) \/ stop_136(t) \/ stop_137(t)
    \/ stop_138(t) \/ stop_140(t) \/ stop_144(t)

\* ---------------------------------------- start_context_recording, 149-159
\* 151-152: if context_active: return
ctxon_151(t) ==
    /\ t.pc = "151"
    /\ IF context_active THEN Exit(t) ELSE Move(t, "153")
    /\ UNCHANGED <<toggleVars, main, fault, flagVars, stream, streamState, devlog, held, cb, wire, hist, playVars>>

\* 153: context_active = True: ToggleContext(on) takes effect, and a new
\* context stream begins on the wire
ctxon_153(t) ==
    /\ t.pc = "153"
    /\ context_active' = TRUE
    /\ wire' = [wire EXCEPT !.cdone = FALSE]
    /\ Move(t, "154a")
    /\ UNCHANGED <<toggleVars, main, fault, recording, context_paused, stream, streamState, devlog, held, cb,
                   hist, playVars>>

\* 154, right-hand side: the value of recording is read
ctxon_154a(t) ==
    /\ t.pc = "154a"
    /\ MoveWith(t, [t EXCEPT !.pc = "154b", !.rd = recording])
    /\ UNCHANGED <<toggleVars, main, fault, flagVars, stream, streamState, devlog, held, cb, wire, hist, playVars>>

\* 154, the assignment: context_paused = <the value read>
ctxon_154b(t) ==
    /\ t.pc = "154b"
    /\ context_paused' = t.rd
    /\ MoveWith(t, [t EXCEPT !.pc = "155a", !.rd = FALSE])
    /\ UNCHANGED <<toggleVars, main, fault, recording, context_active, stream, streamState, devlog, held, cb, wire,
                   hist, playVars>>

\* 155: if not recording ...
ctxon_155a(t) ==
    /\ t.pc = "155a"
    /\ IF recording THEN Exit(t) ELSE Move(t, "155b")
    /\ UNCHANGED <<toggleVars, main, fault, flagVars, stream, streamState, devlog, held, cb, wire, hist, playVars>>

\* 155: ... and not (stream ...
ctxon_155b(t) ==
    /\ t.pc = "155b"
    /\ Move(t, IF stream = None THEN "156" ELSE "155c")
    /\ UNCHANGED <<toggleVars, main, fault, flagVars, stream, streamState, devlog, held, cb, wire, hist, playVars>>

\* 155: ... and stream.active): the global is read again; a closed stream is
\* not active.
ctxon_155c(t) ==
    /\ t.pc = "155c"
    /\ IF stream = None \/ streamState[stream] = "active" THEN Exit(t) ELSE Move(t, "156")
    /\ UNCHANGED <<toggleVars, main, fault, flagVars, stream, streamState, devlog, held, cb, wire, hist, playVars>>

\* 156-157, right-hand side
ctxon_156(t) ==
    /\ t.pc = "156"
    /\ OpenInput(t, "157")
    /\ UNCHANGED <<toggleVars, main, fault, flagVars, stream, held, cb, wire, hist, playVars>>

\* 156-157, the assignment
ctxon_157(t) ==
    /\ t.pc = "157"
    /\ StoreStream(t, "158")
    /\ UNCHANGED <<toggleVars, main, fault, flagVars, streamState, devlog, held, cb, wire, hist, playVars>>

\* 158: stream.start(); the function then returns
ctxon_158(t) ==
    /\ t.pc = "158"
    /\ IF stream # None /\ streamState[stream] = "stopped"
       THEN streamState' = [streamState EXCEPT ![stream] = "active"]
       ELSE UNCHANGED streamState
    /\ UNCHANGED devlog
    /\ Exit(t)
    /\ UNCHANGED <<toggleVars, main, fault, flagVars, stream, held, cb, wire, hist, playVars>>

start_context_recording(t) ==
    \/ ctxon_151(t) \/ ctxon_153(t) \/ ctxon_154a(t) \/ ctxon_154b(t) \/ ctxon_155a(t)
    \/ ctxon_155b(t) \/ ctxon_155c(t) \/ ctxon_156(t) \/ ctxon_157(t) \/ ctxon_158(t)

\* ----------------------------------------- stop_context_recording, 161-174
\* 163-164: if not context_active: return
ctxoff_163(t) ==
    /\ t.pc = "163"
    /\ IF context_active THEN Move(t, "166") ELSE Exit(t)
    /\ UNCHANGED <<toggleVars, main, fault, flagVars, stream, streamState, devlog, held, cb, wire, hist, playVars>>

\* 165-168: sio.emit("audio_complete_context"), any exception swallowed
ctxoff_166(t) ==
    /\ t.pc = "166"
    /\ Emit("audio_complete_context")
    /\ Move(t, "170")
    /\ UNCHANGED <<toggleVars, main, fault, flagVars, stream, streamState, devlog, held, cb, hist, playVars>>

\* 170: context_active = False
ctxoff_170(t) ==
    /\ t.pc = "170"
    /\ context_active' = FALSE
    /\ Move(t, "171a")
    /\ UNCHANGED <<toggleVars, main, fault, recording, context_paused, stream, streamState, devlog, held, cb, wire,
                   hist, playVars>>

\* 171: if not recording ...
ctxoff_171a(t) ==
    /\ t.pc = "171a"
    /\ IF recording THEN Exit(t) ELSE Move(t, "171b")
    /\ UNCHANGED <<toggleVars, main, fault, flagVars, stream, streamState, devlog, held, cb, wire, hist, playVars>>

\* 171: ... and stream:
ctxoff_171b(t) ==
    /\ t.pc = "171b"
    /\ IF stream = None THEN Exit(t) ELSE Move(t, "172")
    /\ UNCHANGED <<toggleVars, main, fault, flagVars, stream, streamState, devlog, held, cb, wire, hist, playVars>>

\* 172: stream.stop()
ctxoff_172(t) ==
    /\ t.pc = "172"
    /\ StopStream(t, "173")
    /\ UNCHANGED <<toggleVars, main, fault, flagVars, stream, held, cb, wire, hist, playVars>>

\* Line 173 left out: the context stream is stopped and never closed.
ctxoff_173_noclose(t) ==
    /\ t.pc = "173"
    /\ Move(t, "174")
    /\ UNCHANGED <<toggleVars, main, fault, flagVars, stream, streamState, devlog, held, cb, wire, hist, playVars>>

\* 173: stream.close()
ctxoff_173(t) ==
    /\ t.pc = "173"
    /\ CloseStream(t, "174")
    /\ UNCHANGED <<toggleVars, main, fault, flagVars, stream, held, cb, wire, hist, playVars>>

\* 174: stream = None
ctxoff_174(t) ==
    /\ t.pc = "174"
    /\ stream' = None
    /\ Exit(t)
    /\ UNCHANGED <<toggleVars, main, fault, flagVars, streamState, devlog, held, cb, wire, hist, playVars>>

stop_context_recording(t) ==
    \/ ctxoff_163(t) \/ ctxoff_166(t) \/ ctxoff_170(t) \/ ctxoff_171a(t)
    \/ ctxoff_171b(t) \/ ctxoff_172(t) \/ ctxoff_173(t) \/ ctxoff_174(t)

\* ------------------------------------------------- toggle_context, 176-180
toggle_context(t) ==
    /\ t.pc = "177"
    /\ Move(t, IF context_active THEN "163" ELSE "151")
    /\ UNCHANGED <<toggleVars, main, fault, flagVars, stream, streamState, devlog, held, cb, wire, hist, playVars>>

\* ------------------------------------------------- audio_callback, 97-107
\* PortAudio calls the callback of every started stream, on that stream's own
\* thread, for as long as the stream is active, whether or not the handle
\* still names it.
\* 102: if recording:
cb_102(s) ==
    /\ streamState[s] = "active"
    /\ cb[s] = "idle"
    /\ cb' = [cb EXCEPT ![s] = IF recording THEN "103" ELSE "104a"]
    /\ UNCHANGED <<toggleVars, main, fault, flagVars, stream, streamState, devlog, threads, held, wire, hist, playVars>>

\* 103: sio.emit("audio_chunk_query", raw)
cb_103(s) ==
    /\ cb[s] = "103"
    /\ Emit("audio_chunk_query")
    /\ cb' = [cb EXCEPT ![s] = "idle"]
    /\ UNCHANGED <<toggleVars, main, fault, flagVars, stream, streamState, devlog, threads, held, hist, playVars>>

\* 104: elif context_active ...
cb_104a(s) ==
    /\ cb[s] = "104a"
    /\ cb' = [cb EXCEPT ![s] = IF context_active THEN "104b" ELSE "idle"]
    /\ UNCHANGED <<toggleVars, main, fault, flagVars, stream, streamState, devlog, threads, held, wire, hist, playVars>>

\* 104: ... and not context_paused:
cb_104b(s) ==
    /\ cb[s] = "104b"
    /\ cb' = [cb EXCEPT ![s] = IF context_paused THEN "idle" ELSE "105"]
    /\ UNCHANGED <<toggleVars, main, fault, flagVars, stream, streamState, devlog, threads, held, wire, hist, playVars>>

\* 105: sio.emit("audio_chunk_context", raw)
cb_105(s) ==
    /\ cb[s] = "105"
    /\ Emit("audio_chunk_context")
    /\ cb' = [cb EXCEPT ![s] = "idle"]
    /\ UNCHANGED <<toggleVars, main, fault, flagVars, stream, streamState, devlog, threads, held, hist, playVars>>

audio_callback(s) ==
    \/ cb_102(s) \/ cb_103(s) \/ cb_104a(s) \/ cb_104b(s) \/ cb_105(s)

\* ------------------------------------------- on_server_audio_chunk, 43-48
Undelivered == {c \in Chunks : chunkInfo[c].put = "none"}

NextChunk == CHOOSE c \in Undelivered : \A d \in Undelivered : c <= d

\* 45-46: a chunk arrives; if not playback_enabled.is_set(): return
chunk_45 ==
    /\ srv.pc = "idle"
    /\ Undelivered # {}
    /\ IF playback_enabled
       THEN /\ srv' = [srv EXCEPT !.pc = "48", !.chunk = NextChunk]
            /\ chunkInfo' = [chunkInfo EXCEPT ![NextChunk].put = "accepted"]
       ELSE /\ srv' = srv
            /\ chunkInfo' = [chunkInfo EXCEPT ![NextChunk].put = "dropped"]
    /\ UNCHANGED <<toggleVars, main, fault, flagVars, stream, streamState, devlog, threads, held, cb, wire, hist,
                   playback_enabled, playback_queue, playback_worker_running,
                   worker, written>>

\* 47-48: playback_queue.put(arr)
chunk_48 ==
    /\ srv.pc = "48"
    /\ playback_queue' = Append(playback_queue, srv.chunk)
    /\ chunkInfo' = [chunkInfo EXCEPT
            ![srv.chunk].put = IF playback_enabled THEN "queued" ELSE "queued_disabled"]
    /\ srv' = [srv EXCEPT !.pc = "idle", !.chunk = None]
    /\ UNCHANGED <<toggleVars, main, fault, flagVars, stream, streamState, devlog, threads, held, cb, wire, hist,
                   playback_enabled, playback_worker_running, worker, written>>

on_server_audio_chunk == chunk_45 \/ chunk_48

\* ---------------------------------------- on_server_audio_complete, 50-56
\* 54: server_audio_complete arrives; if context_active ...
\* (srv.enabled: playback_enabled was set when the signal arrived)
complete_54a ==
    /\ srv.pc = "idle"
    /\ srv' = IF context_active
              THEN [srv EXCEPT !.pc = "54b", !.enabled = playback_enabled]
              ELSE srv
    /\ hist' = Record("ReplyStreamComplete")
    /\ UNCHANGED <<toggleVars, main, fault, flagVars, stream, streamState, devlog, threads, held, cb, wire,
                   playback_enabled, playback_queue, playback_worker_running,
                   worker, written, chunkInfo>>

\* 54: ... and not recording:
complete_54b ==
    /\ srv.pc = "54b"
    /\ srv' = IF recording
              THEN [srv EXCEPT !.pc = "idle", !.enabled = FALSE]
              ELSE [srv EXCEPT !.pc = "55"]
    /\ UNCHANGED <<toggleVars, main, fault, flagVars, stream, streamState, devlog, threads, held, cb, wire, hist,
                   playback_enabled, playback_queue, playback_worker_running,
                   worker, written, chunkInfo>>

\* 55: context_paused = False
complete_55 ==
    /\ srv.pc = "55"
    /\ context_paused' = FALSE
    /\ srv' = [srv EXCEPT !.pc = "idle", !.enabled = FALSE]
    /\ UNCHANGED <<toggleVars, main, fault, recording, context_active, stream, streamState, devlog, threads, held, cb,
                   wire, hist, playback_enabled, playback_queue,
                   playback_worker_running, worker, written, chunkInfo>>

on_server_audio_complete == complete_54a \/ complete_54b \/ complete_55

\* ------------------------------------------------- playback_worker, 58-80
\* 63: while playback_worker_running.is_set(): when the flag is clear the
\* loop and the with block end, and the finally clause follows
worker_63 ==
    /\ worker.pc = "63"
    /\ worker' = [worker EXCEPT !.pc = IF playback_worker_running THEN "64" ELSE "79"]
    /\ UNCHANGED <<toggleVars, main, fault, flagVars, stream, streamState, devlog, threads, held, cb,
                   wire, hist, playback_enabled, playback_queue, playback_worker_running,
                   srv, written, chunkInfo>>

\* 64: if not playback_enabled.is_set():
worker_64 ==
    /\ worker.pc = "64"
    /\ worker' = [worker EXCEPT !.pc = IF playback_enabled THEN "70" ELSE "66"]
    /\ UNCHANGED <<toggleVars, main, fault, flagVars, stream, streamState, devlog, threads, held, cb, wire, hist,
                   playback_enabled, playback_queue, playback_worker_running,
                   srv, written, chunkInfo>>

\* 65-68: sleep; while not playback_queue.empty(): playback_queue.get_nowait();
\* continue.  The worker is the queue's only consumer, so get_nowait() finds
\* the item empty() saw.
worker_66 ==
    /\ worker.pc = "66"
    /\ IF playback_queue = << >>
       THEN /\ worker' = [worker EXCEPT !.pc = "63"]
            /\ UNCHANGED playback_queue
       ELSE /\ playback_queue' = Tail(playback_queue)
            /\ UNCHANGED worker
    /\ UNCHANGED <<toggleVars, main, fault, flagVars, stream, streamState, devlog, threads, held, cb, wire, hist,
                   playback_enabled, playback_worker_running, srv, written, chunkInfo>>

\* Lines 69-72 with the newest chunk taken instead of the oldest.
worker_70_newest ==
    /\ worker.pc = "70"
    /\ IF playback_queue = << >>
       THEN /\ worker' = [worker EXCEPT !.pc = "63"]
            /\ UNCHANGED playback_queue
       ELSE /\ worker' = [pc |-> "75", arr |-> playback_queue[Len(playback_queue)]]
            /\ playback_queue' = SubSeq(playback_queue, 1, Len(playback_queue) - 1)
    /\ UNCHANGED <<toggleVars, main, fault, flagVars, stream, streamState, devlog, threads, held, cb, wire, hist,
                   playback_enabled, playback_worker_running, srv, written, chunkInfo>>

\* 69-72: arr = playback_queue.get(timeout=0.1); on queue.Empty: continue
worker_70 ==
    /\ worker.pc = "70"
    /\ IF playback_queue = << >>
       THEN /\ worker' = [worker EXCEPT !.pc = "63"]
            /\ UNCHANGED playback_queue
       ELSE /\ worker' = [pc |-> "75", arr |-> Head(playback_queue)]
            /\ playback_queue' = Tail(playback_queue)
    /\ UNCHANGED <<toggleVars, main, fault, flagVars, stream, streamState, devlog, threads, held, cb, wire, hist,
                   playback_enabled, playback_worker_running, srv, written, chunkInfo>>

\* 73-75: out_stream.write(arr)
worker_75 ==
    /\ worker.pc = "75"
    /\ written' = Append(written, worker.arr)
    /\ worker' = [pc |-> "63", arr |-> None]
    /\ UNCHANGED <<toggleVars, main, fault, flagVars, stream, streamState, devlog, threads, held, cb, wire, hist,
                   playback_enabled, playback_queue, playback_worker_running,
                   srv, chunkInfo>>

playback_worker == worker_63 \/ worker_64 \/ worker_66 \/ worker_70 \/ worker_75

\* 60: with sd.OutputStream(...): PortAudio opens the output device, or raises
worker_60 ==
    /\ worker.pc = "60"
    /\ \E opened \in BOOLEAN :
            worker' = [worker EXCEPT !.pc = IF opened THEN "62" ELSE "76"]
    /\ UNCHANGED <<toggleVars, main, fault, flagVars, stream, streamState, devlog, threads, held, cb,
                   wire, hist, playback_enabled, playback_queue, playback_worker_running,
                   srv, written, chunkInfo>>

\* 61-62: playback_worker_running.set()
worker_62 ==
    /\ worker.pc = "62"
    /\ playback_worker_running' = TRUE
    /\ worker' = [worker EXCEPT !.pc = "63"]
    /\ UNCHANGED <<toggleVars, main, fault, flagVars, stream, streamState, devlog, threads, held, cb,
                   wire, hist, playback_enabled, playback_queue, srv, written, chunkInfo>>

\* 76-77: except Exception as e: print(...)
worker_76 ==
    /\ worker.pc = "76"
    /\ worker' = [worker EXCEPT !.pc = "79"]
    /\ UNCHANGED <<toggleVars, main, fault, flagVars, stream, streamState, devlog, threads, held, cb,
                   wire, hist, playback_enabled, playback_queue, playback_worker_running,
                   srv, written, chunkInfo>>

\* 78-80: finally: playback_worker_running.clear(); the thread ends
worker_79 ==
    /\ worker.pc = "79"
    /\ playback_worker_running' = FALSE
    /\ worker' = [worker EXCEPT !.pc = "end"]
    /\ UNCHANGED <<toggleVars, main, fault, flagVars, stream, streamState, devlog, threads, held, cb,
                   wire, hist, playback_enabled, playback_queue, srv, written, chunkInfo>>

playback_worker_opens == worker_60 \/ worker_62 \/ worker_76 \/ worker_79

\* --------------------------------------------------- module level, 82-84
\* 83-84: while not playback_worker_running.is_set(): time.sleep(0.01);
\* then, at 229-230, run_client() is called and comes to wait for input
main_83 ==
    /\ main = "83"
    /\ main' = IF playback_worker_running THEN "run" ELSE "83"
    /\ UNCHANGED <<toggleVars, fault, flagVars, stream, streamState, devlog, threads, held, cb,
                   wire, hist, playVars>>

\* --------------------------------------------------- setup_button, 185-196
\* 190: button 1 goes down: a new thread runs start_recording (StartQuery)
Press ==
    /\ ~held
    /\ CanSpawn
    /\ held' = TRUE
    /\ Spawn("114")
    /\ hist' = Record("StartQuery")
    /\ wire' = [wire EXCEPT !.qdone = FALSE]
    /\ NoteQueued
    /\ UNCHANGED <<toggleVars, main, fault, flagVars, stream, streamState, devlog, cb,
                   playback_enabled, playback_queue, playback_worker_running,
                   srv, worker, written>>

\* 191: button 1 goes up: a new thread runs stop_recording (StopQuery)
Release ==
    /\ held
    /\ BagCardinality(threads) < MaxThreads
    /\ held' = FALSE
    /\ Spawn("132")
    /\ hist' = Record("StopQuery")
    /\ chunkInfo' = [c \in Chunks |-> [chunkInfo[c] EXCEPT !.pre = FALSE]]
    /\ UNCHANGED <<toggleVars, main, fault, flagVars, stream, streamState, devlog, cb, wire, playback_enabled,
                   playback_queue, playback_worker_running, srv, worker, written>>

\* 192: button 2 goes down: a new thread runs toggle_context (ToggleContext)
Toggle ==
    /\ CanSpawn
    /\ Spawn("177")
    /\ hist' = Record("ToggleContext")
    /\ UNCHANGED <<toggleVars, main, fault, flagVars, stream, streamState, devlog, held, cb, wire, playVars>>

QueryHandler(t) == start_recording(t) \/ stop_recording(t)

ContextHandler(t) ==
    \/ toggle_context(t)
    \/ start_context_recording(t)
    \/ stop_context_recording(t)

\* ------------------------------------------------------ run_client, 201-227
\* 213-217: input() returns "q" (or raises): the loop ends, the finally block
\* begins.  The flags of this moment are noted.
Quit ==
    /\ main = "run"
    /\ main' = "218"
    /\ fault' = [event |-> "Quit", snap |-> <<recording, context_active, context_paused>>,
                 open |-> FALSE, emit |-> FALSE]
    /\ UNCHANGED <<toggleVars, flagVars, stream, streamState, devlog, threads, held, cb,
                   wire, hist, playVars>>

\* 218-219: if recording: stop_recording(), called in the main thread
main_218 ==
    /\ main = "218"
    /\ IF recording
       THEN /\ main' = "219"
            /\ threads' = threads (+) SetToBag({MainCall("132")})
       ELSE /\ main' = "220"
            /\ UNCHANGED threads
    /\ UNCHANGED <<toggleVars, fault, flagVars, stream, streamState, devlog, held, cb,
                   wire, hist, playVars>>

\* 220-221: if context_active: stop_context_recording(), called in the main thread
main_220 ==
    /\ main = "220"
    /\ IF context_active
       THEN /\ main' = "221"
            /\ threads' = threads (+) SetToBag({MainCall("163")})
       ELSE /\ main' = "222"
            /\ UNCHANGED threads
    /\ UNCHANGED <<toggleVars, fault, flagVars, stream, streamState, devlog, held, cb,
                   wire, hist, playVars>>

InMain == {t \in Running : t.inmain}

\* The statement the main thread is at raises: stream.stop() or stream.close()
\* on a handle that is None by now (136, 137, 172, 173).
Raises(t) == t.pc \in {"136", "137", "172", "173"} /\ stream = None

\* One statement of the handler the main thread has called.
main_calls(t) ==
    /\ t.inmain
    /\ ~Raises(t)
    /\ stop_recording(t) \/ stop_context_recording(t)

\* The exception leaves the finally block and run_client: a traceback, and
\* the process is over.
main_raises(t) ==
    /\ t.inmain
    /\ Raises(t)
    /\ Exit(t)
    /\ main' = "exit"
    /\ UNCHANGED <<toggleVars, fault, flagVars, stream, streamState, devlog, held, cb,
                   wire, hist, playVars>>

\* The handler called at 219 or 221 has returned.
main_returns ==
    /\ main \in {"219", "221"}
    /\ InMain = {}
    /\ main' = IF main = "219" THEN "220" ELSE "222"
    /\ UNCHANGED <<toggleVars, fault, flagVars, stream, streamState, devlog, threads, held, cb,
                   wire, hist, playVars>>

\* 222: playback_worker_running.clear()
main_222 ==
    /\ main = "222"
    /\ playback_worker_running' = FALSE
    /\ main' = "223"
    /\ UNCHANGED <<toggleVars, fault, flagVars, stream, streamState, devlog, threads, held, cb,
                   wire, hist, playback_enabled, playback_queue, srv, worker, written,
                   chunkInfo>>

\* 223: playback_enabled.clear()
main_223 ==
    /\ main = "223"
    /\ playback_enabled' = FALSE
    /\ main' = "224"
    /\ UNCHANGED <<toggleVars, fault, flagVars, stream, streamState, devlog, threads, held, cb,
                   wire, hist, playback_queue, playback_worker_running, srv, worker,
                   written, chunkInfo>>

\* 224-226: time.sleep(0.05); the buttons are closed: no handler is started
\* from here on
main_224 ==
    /\ main = "224"
    /\ main' = "227"
    /\ UNCHANGED <<toggleVars, fault, flagVars, stream, streamState, devlog, threads, held, cb,
                   wire, hist, playVars>>

\* 227: sio.disconnect(); run_client returns and the process is over, its
\* daemon threads with it
main_227 ==
    /\ main = "227"
    /\ main' = "exit"
    /\ UNCHANGED <<toggleVars, fault, flagVars, stream, streamState, devlog, threads, held, cb,
                   wire, hist, playVars>>

run_client ==
    \/ Quit \/ main_218 \/ main_220 \/ main_returns
    \/ main_222 \/ main_223 \/ main_224 \/ main_227

\* ------------------------------------ the device or the transport fails
\* 124-125: sd.InputStream(...) raises: nothing catches it in start_recording,
\* the handler thread ends
start_124_fails(t) ==
    /\ t.pc = "124"
    /\ Exit(t)
    /\ fault' = [fault EXCEPT !.open = TRUE]
    /\ UNCHANGED <<toggleVars, main, flagVars, stream, streamState, devlog, held, cb, wire, hist,
                   playVars>>

\* 156-157: sd.InputStream(...) raises: nothing catches it in
\* start_context_recording nor in toggle_context, the handler thread ends
ctxon_156_fails(t) ==
    /\ t.pc = "156"
    /\ Exit(t)
    /\ fault' = [fault EXCEPT !.open = TRUE]
    /\ UNCHANGED <<toggleVars, main, flagVars, stream, streamState, devlog, held, cb, wire, hist,
                   playVars>>

\* Lines 117-120 without the try: the exception of sio.emit ends the thread.
start_118_raises(t) ==
    /\ t.pc = "118"
    /\ Exit(t)
    /\ fault' = [fault EXCEPT !.emit = TRUE]
    /\ UNCHANGED <<toggleVars, main, flagVars, stream, streamState, devlog, held, cb, wire, hist,
                   playVars>>

\* 117-120: sio.emit("stop_server_stream") raises, nothing is sent; except: pass
start_118_fails(t) ==
    /\ t.pc = "118"
    /\ Move(t, "121")
    /\ fault' = [fault EXCEPT !.emit = TRUE]
    /\ UNCHANGED <<toggleVars, main, flagVars, stream, streamState, devlog, held, cb, wire, hist,
                   playVars>>

\* 139-142: sio.emit("audio_complete_query") raises, nothing is sent; except: pass
stop_140_fails(t) ==
    /\ t.pc = "140"
    /\ Move(t, "144")
    /\ fault' = [fault EXCEPT !.emit = TRUE]
    /\ UNCHANGED <<toggleVars, main, flagVars, stream, streamState, devlog, held, cb, wire, hist,
                   playVars>>

\* 165-168: sio.emit("audio_complete_context") raises, nothing is sent; except: pass
ctxoff_166_fails(t) ==
    /\ t.pc = "166"
    /\ Move(t, "170")
    /\ fault' = [fault EXCEPT !.emit = TRUE]
    /\ UNCHANGED <<toggleVars, main, flagVars, stream, streamState, devlog, held, cb, wire, hist,
                   playVars>>

OpenFails(t) == start_124_fails(t) \/ ctxon_156_fails(t)

EmitFails(t) == start_118_fails(t) \/ stop_140_fails(t) \/ ctxoff_166_fails(t)

\* ------------------------------------------- the handlers run as one step
\* What each handler does to the flags, the handle and the number of open
\* capture streams when nothing runs between its statements.
Atomic_start_recording(a) ==
    IF a.recording THEN a
    ELSE [a EXCEPT !.playback_enabled = FALSE,
                   !.context_paused = IF a.context_active THEN TRUE ELSE @,
                   !.nopen = @ + 1,
                   !.handle = TRUE,
                   !.recording = TRUE]

Atomic_stop_recording(a) ==
    IF ~a.recording THEN a
    ELSE [a EXCEPT !.recording = FALSE,
                   !.nopen = IF a.handle THEN @ - 1 ELSE @,
                   !.handle = FALSE,
                   !.playback_enabled = TRUE]

Atomic_start_context_recording(a) ==
    IF a.context_active THEN a
    ELSE [a EXCEPT !.context_active = TRUE,
                   !.context_paused = a.recording,
                   !.nopen = IF ~a.recording /\ ~a.handle THEN @ + 1 ELSE @,
                   !.handle = @ \/ ~a.recording]

Atomic_stop_context_recording(a) ==
    IF ~a.context_active THEN a
    ELSE [a EXCEPT !.context_active = FALSE,
                   !.nopen = IF ~a.recording /\ a.handle THEN @ - 1 ELSE @,
                   !.handle = @ /\ a.recording]

Atomic_toggle_context(a) ==
    IF a.context_active
    THEN Atomic_stop_context_recording(a)
    ELSE Atomic_start_context_recording(a)

Atomic_on_server_audio_complete(a) ==
    IF a.context_active /\ ~a.recording THEN [a EXCEPT !.context_paused = FALSE] ELSE a

Atomic(a, e) ==
    CASE e = "StartQuery" -> Atomic_start_recording(a)
      [] e = "StopQuery" -> Atomic_stop_recording(a)
      [] e = "ToggleContext" -> Atomic_toggle_context(a)
      [] e = "ReplyStreamComplete" -> Atomic_on_server_audio_complete(a)

\* The state after construction, lines 39-41 and 89-92.
AtomicInit ==
    [recording |-> FALSE, context_active |-> FALSE, context_paused |-> FALSE,
     playback_enabled |-> FALSE, handle |-> FALSE, nopen |-> 0]

RECURSIVE AtomicRun(_, _)
AtomicRun(a, events) ==
    IF events = << >> THEN a ELSE AtomicRun(Atomic(a, Head(events)), Tail(events))

\* ---------------------------------------------------------- specification
\* The button threads alone: every interleaving of the handlers setup_button
\* dispatches.
Next ==
    \/ Press
    \/ Release
    \/ Toggle
    \/ \E t \in Running : QueryHandler(t)
    \/ \E t \in Running : ContextHandler(t)

Spec == Init /\ [][Next]_vars

\* The control events one at a time: an event is taken only when the handler
\* of the one before it has returned; StartQuery and StopQuery come in any
\* order, and held tells which of the two came last.
Quiet == threads = EmptyBag /\ srv.pc \in {"idle", "48"}

SeqStartQuery ==
    /\ Quiet
    /\ CanSpawn
    /\ Spawn("114")
    /\ held' = TRUE
    /\ hist' = Record("StartQuery")
    /\ wire' = [wire EXCEPT !.qdone = FALSE]
    /\ NoteQueued
    /\ UNCHANGED <<toggleVars, main, fault, flagVars, stream, streamState, devlog, cb,
                   playback_enabled, playback_queue, playback_worker_running,
                   srv, worker, written>>

SeqStopQuery ==
    /\ Quiet
    /\ Spawn("132")
    /\ held' = FALSE
    /\ hist' = Record("StopQuery")
    /\ chunkInfo' = [c \in Chunks |-> [chunkInfo[c] EXCEPT !.pre = FALSE]]
    /\ UNCHANGED <<toggleVars, main, fault, flagVars, stream, streamState, devlog, cb, wire, playback_enabled,
                   playback_queue, playback_worker_running, srv, worker, written>>

SeqToggleContext ==
    /\ Quiet
    /\ Toggle

SeqReplyStreamComplete ==
    /\ Quiet
    /\ complete_54a

SeqNext ==
    \/ SeqStartQuery
    \/ SeqStopQuery
    \/ SeqToggleContext
    \/ SeqReplyStreamComplete
    \/ complete_54b
    \/ complete_55
    \/ \E t \in Running : QueryHandler(t)
    \/ \E t \in Running : ContextHandler(t)

SeqSpec == Init /\ [][SeqNext]_vars

\* The control events one at a time, and between the steps of their handlers
\* the capture callbacks of the started streams.
CaptureNext ==
    \/ SeqNext
    \/ \E s \in Streams : audio_callback(s)

CaptureSpec == Init /\ [][CaptureNext]_vars

\* The control events one at a time, and between the steps of their handlers
\* the reply chunks from the server and the playback worker.
PlaybackNext ==
    \/ SeqNext
    \/ on_server_audio_chunk
    \/ playback_worker

PlaybackSpec == Init /\ [][PlaybackNext]_vars

\* The button events one at a time, and server_audio_complete at any moment:
\* the socket.io receive thread does not wait for a button handler.
ReplyNext ==
    \/ SeqNext
    \/ complete_54a

ReplySpec == Init /\ [][ReplyNext]_vars

\* Button 1 is pressed once and released, button 2 is pressed now and then,
\* and every handler thread that was started gets to run.
Pressed == hist # Overflow /\ \E i \in 1..Len(hist) : hist[i] = "StartQuery"

HistHasRoom == hist # Overflow /\ Len(hist) < MaxHist

FirstPress == HistHasRoom /\ ~Pressed /\ Press

ItsRelease == HistHasRoom /\ Release

SomeToggle == HistHasRoom /\ Toggle

HandlerStep == \E t \in Running : QueryHandler(t) \/ ContextHandler(t)

ReleaseNext ==
    \/ FirstPress
    \/ ItsRelease
    \/ SomeToggle
    \/ HandlerStep

ReleaseSpec == Init /\ [][ReleaseNext]_vars /\ WF_vars(HandlerStep)

\* The control events one at a time, each noted with the flag values it
\* meets; in its handler the capture device may fail to open and the
\* transport may fail to send.
Note(e) ==
    fault' = [event |-> e, snap |-> <<recording, context_active, context_paused>>,
              open |-> FALSE, emit |-> FALSE]

NotedStartQuery ==
    /\ Quiet
    /\ CanSpawn
    /\ Spawn("114")
    /\ held' = TRUE
    /\ hist' = Record("StartQuery")
    /\ wire' = [wire EXCEPT !.qdone = FALSE]
    /\ NoteQueued
    /\ Note("StartQuery")
    /\ UNCHANGED <<toggleVars, main, flagVars, stream, streamState, devlog, cb,
                   playback_enabled, playback_queue, playback_worker_running,
                   srv, worker, written>>

NotedStopQuery ==
    /\ Quiet
    /\ Spawn("132")
    /\ held' = FALSE
    /\ hist' = Record("StopQuery")
    /\ chunkInfo' = [c \in Chunks |-> [chunkInfo[c] EXCEPT !.pre = FALSE]]
    /\ Note("StopQuery")
    /\ UNCHANGED <<toggleVars, main, flagVars, stream, streamState, devlog, cb, wire,
                   playback_enabled, playback_queue, playback_worker_running,
                   srv, worker, written>>

NotedToggleContext ==
    /\ Quiet
    /\ CanSpawn
    /\ Spawn("177")
    /\ hist' = Record("ToggleContext")
    /\ Note("ToggleContext")
    /\ UNCHANGED <<toggleVars, main, flagVars, stream, streamState, devlog, held, cb, wire,
                   playVars>>

FaultNext ==
    \/ NotedStartQuery
    \/ NotedStopQuery
    \/ NotedToggleContext
    \/ \E t \in Running : QueryHandler(t)
    \/ \E t \in Running : ContextHandler(t)
    \/ \E t \in Running : OpenFails(t)
    \/ \E t \in Running : EmitFails(t)

FaultSpec == Init /\ [][FaultNext]_vars

\* The client until its process is over: at most MaxQuitEvents control events, one
\* at a time and only while the buttons are open, the operator quitting at any moment,
\* the finally block of run_client, the handler threads still alive, and the
\* playback worker with the reply chunks that arrive.
ButtonsOpen == main \in {"run", "218", "219", "220", "221", "222", "223", "224"}

Alive == main # "exit"

ButtonEvent ==
    /\ ButtonsOpen
    /\ hist # Overflow
    /\ Len(hist) < MaxQuitEvents
    /\ SeqStartQuery \/ SeqStopQuery \/ SeqToggleContext

ButtonThread ==
    /\ Alive
    /\ \E t \in Running \ InMain : QueryHandler(t) \/ ContextHandler(t)

MainThread ==
    /\ Alive
    /\ \/ run_client
       \/ \E t \in Running : main_calls(t)
       \/ \E t \in Running : main_raises(t)

WorkerThread ==
    /\ Alive
    /\ playback_worker \/ worker_79

\* The socket.io receive thread, until sio.disconnect() (227)
ReceiveThread ==
    /\ Alive
    /\ on_server_audio_chunk

ShutdownNext ==
    \/ ButtonEvent
    \/ ButtonThread
    \/ MainThread
    \/ WorkerThread
    \/ ReceiveThread

ShutdownSpec ==
    /\ Init
    /\ [][ShutdownNext]_vars
    /\ WF_vars(ButtonThread)
    /\ WF_vars(MainThread)
    /\ WF_vars(WorkerThread)

\* The program from line 82 on: the playback worker opens its output stream
\* while the main thread waits for it; once run_client waits for input, the
\* control events come one at a time.  Both threads get to run.
ClientRuns == main = "run" /\ SeqNext

StartupNext ==
    \/ playback_worker_opens
    \/ main_83
    \/ ClientRuns

StartupSpec ==
    /\ BootInit
    /\ [][StartupNext]_vars
    /\ WF_vars(playback_worker_opens)
    /\ WF_vars(main_83)

\* ------------------------------------------------ src/client5_f4_button.py
recVars == <<tg_recording, tg_stream, tg_streamState, audio_queue>>
playbackVars == <<playing, playback_thread, player, device>>
inputVars == <<chunk_size, presses>>

Min(a, b) == IF a <= b THEN a ELSE b

\* 185: b''.join(chunks)
RECURSIVE Join(_)
Join(frames) == IF frames = << >> THEN << >> ELSE Head(frames) \o Join(Tail(frames))

\* A slice that stops one byte short.
Slice_short(data, i, n) == SubSeq(data, i + 1, Min(i + n, Len(data)) - 1)

\* 188: data[i:i+CHUNK_SIZE], i counted from 0
Slice(data, i, n) == SubSeq(data, i + 1, Min(i + n, Len(data)))

\* 187: range(0, len(data), CHUNK_SIZE)
Range(len, step) == [k \in 1..((len + step - 1) \div step) |-> (k - 1) * step]

AudioChunk(bytes) == [type |-> "audio_chunk", data |-> bytes]
AudioComplete == [type |-> "audio_complete", data |-> << >>]

\* ---------------------------------------------------- audio_callback, 107-114
\* with _recording_lock: if recording: audio_queue.put(indata.tobytes()).
\* A frame's bytes tell the recording it was captured in and its place there.
InSession(k) == SelectSeq(captured, LAMBDA f : f[1] = k)

NextFrame == <<session, Len(InSession(session)) + 1>>

tg_audio_callback(s) ==
    /\ tg_streamState[s] = "active"
    /\ tg_recording
    /\ Len(captured) < MaxFrames
    /\ audio_queue' = Append(audio_queue, NextFrame)
    /\ captured' = Append(captured, NextFrame)
    /\ UNCHANGED <<fcVars, tg_recording, tg_stream, tg_streamState, playbackVars,
                   presser, sender, inputVars, session, sent, lost, stale>>

\* ------------------------------------- on_press_toggle, 214-225 (the press)
FreeSenders == {i \in Senders : sender[i].pc = "none"}

\* 217-225, while the button is open (before line 260): currently_recording
\* is read under the lock; if it is false
\* start_recording() runs on this thread, and the messages received so far are
\* the ones received before the call; otherwise a stop_and_send thread starts.
on_press_toggle ==
    /\ sender[MainCaller].pc = "none"
    /\ presser.pc = "idle"
    /\ presses < MaxPresses
    /\ presses' = presses + 1
    /\ IF ~tg_recording
       THEN /\ session < MaxSessions
            /\ presser' = [presser EXCEPT !.pc = "52"]
            /\ stale' = {a \in Audios : player[a] # "none"}
            /\ UNCHANGED sender
       ELSE /\ FreeSenders # {}
            /\ sender' = [sender EXCEPT
                    ![CHOOSE i \in FreeSenders : \A j \in FreeSenders : i <= j] =
                        [NotSending EXCEPT !.pc = "155"]]
            /\ UNCHANGED <<presser, stale>>
    /\ UNCHANGED <<fcVars, recVars, playbackVars, chunk_size, session, captured,
                   sent, lost>>

\* ----------------------------------------------------- stop_playback, 49-66
\* 52-60: with _playback_lock: if not _playing: return; sd.stop(); _playing = False
stop_52 ==
    /\ presser.pc = "52"
    /\ IF playing
       THEN /\ device' = None
            /\ playing' = FALSE
            /\ presser' = [presser EXCEPT !.pc = "63"]
       ELSE /\ UNCHANGED <<device, playing>>
            /\ presser' = [presser EXCEPT !.pc = "129"]
    /\ UNCHANGED <<fcVars, recVars, playback_thread, player, sender, inputVars,
                   session, captured, sent, lost, stale>>

\* 63: if _playback_thread is not None:
stop_63 ==
    /\ presser.pc = "63"
    /\ presser' = [presser EXCEPT !.pc = IF playback_thread # None THEN "64" ELSE "129"]
    /\ UNCHANGED <<fcVars, recVars, playbackVars, sender, inputVars, session,
                   captured, sent, lost, stale>>

\* 64: _playback_thread.join(timeout=0.5): the global is read again.  On a
\* thread the join returns when the thread has ended or the half second is
\* over; on None it is an AttributeError that nothing catches, and
\* stop_playback, start_recording and the press handler end there.
stop_64 ==
    /\ presser.pc = "64"
    /\ presser' = [presser EXCEPT !.pc = IF playback_thread # None THEN "65" ELSE "idle"]
    /\ UNCHANGED <<fcVars, recVars, playbackVars, sender, inputVars, session,
                   captured, sent, lost, stale>>

\* 65: _playback_thread = None
stop_65 ==
    /\ presser.pc = "65"
    /\ playback_thread' = None
    /\ presser' = [presser EXCEPT !.pc = "129"]
    /\ UNCHANGED <<fcVars, recVars, playing, player, device, sender, inputVars,
                   session, captured, sent, lost, stale>>

stop_playback == stop_52 \/ stop_63 \/ stop_64 \/ stop_65

\* -------------------------------------------------- start_recording, 123-150
\* 129-133: with _recording_lock: if recording: return; recording = True
tg_start_129 ==
    /\ presser.pc = "129"
    /\ IF tg_recording
       THEN /\ presser' = [presser EXCEPT !.pc = "idle"]
            /\ UNCHANGED <<tg_recording, session>>
       ELSE /\ tg_recording' = TRUE
            /\ session' = session + 1
            /\ presser' = [presser EXCEPT !.pc = "136"]
    /\ UNCHANGED <<fcVars, tg_stream, tg_streamState, audio_queue, playbackVars,
                   sender, inputVars, captured, sent, lost, stale>>

\* 136: _drain_audio_queue(): audio_queue.get_nowait() until the queue is empty
tg_start_136 ==
    /\ presser.pc = "136"
    /\ IF audio_queue # << >>
       THEN /\ audio_queue' = Tail(audio_queue)
            /\ lost' = lost \cup {Head(audio_queue)}
            /\ UNCHANGED presser
       ELSE /\ presser' = [presser EXCEPT !.pc = "138"]
            /\ UNCHANGED <<audio_queue, lost>>
    /\ UNCHANGED <<fcVars, tg_recording, tg_stream, tg_streamState, playbackVars,
                   sender, inputVars, session, captured, sent, stale>>

\* 138-144, right-hand side: sd.InputStream(...) opens this recording's stream
tg_start_138 ==
    /\ presser.pc = "138"
    /\ tg_streamState' = [tg_streamState EXCEPT ![session] = "stopped"]
    /\ presser' = [pc |-> "144", new |-> session]
    /\ UNCHANGED <<fcVars, tg_recording, tg_stream, audio_queue, playbackVars,
                   sender, inputVars, session, captured, sent, lost, stale>>

\* 138-144, the assignment: stream = <the new object>
tg_start_144 ==
    /\ presser.pc = "144"
    /\ tg_stream' = presser.new
    /\ presser' = [pc |-> "145", new |-> None]
    /\ UNCHANGED <<fcVars, tg_recording, tg_streamState, audio_queue, playbackVars,
                   sender, inputVars, session, captured, sent, lost, stale>>

\* 145: stream.start() on what the global names now; AttributeError on None
\* and PortAudioError on a closed stream go to the except clause, line 147
tg_start_145 ==
    /\ presser.pc = "145"
    /\ IF tg_stream # None /\ tg_streamState[tg_stream] = "stopped"
       THEN /\ tg_streamState' = [tg_streamState EXCEPT ![tg_stream] = "active"]
            /\ presser' = [presser EXCEPT !.pc = "idle"]
       ELSE /\ UNCHANGED tg_streamState
            /\ presser' = [presser EXCEPT !.pc = "148"]
    /\ UNCHANGED <<fcVars, tg_recording, tg_stream, audio_queue, playbackVars,
                   sender, inputVars, session, captured, sent, lost, stale>>

\* 148-149: with _recording_lock: recording = False
tg_start_148 ==
    /\ presser.pc = "148"
    /\ tg_recording' = FALSE
    /\ presser' = [presser EXCEPT !.pc = "idle"]
    /\ UNCHANGED <<fcVars, tg_stream, tg_streamState, audio_queue, playbackVars,
                   sender, inputVars, session, captured, sent, lost, stale>>

tg_start_recording ==
    \/ stop_playback
    \/ tg_start_129 \/ tg_start_136 \/ tg_start_138 \/ tg_start_144
    \/ tg_start_145 \/ tg_start_148

\* --------------------------------------------------- stop_recording, 152-170
SenderAt(i, pc) == sender' = [sender EXCEPT ![i].pc = pc]

\* 155-158: with _recording_lock: if not recording: return; recording = False.
\* stop_and_send goes on to send_audio_to_server either way.
tg_stop_155(i) ==
    /\ sender[i].pc = "155"
    /\ IF tg_recording
       THEN /\ tg_recording' = FALSE
            /\ SenderAt(i, "160")
       ELSE /\ UNCHANGED tg_recording
            /\ SenderAt(i, "177")
    /\ UNCHANGED <<fcVars, tg_stream, tg_streamState, audio_queue, playbackVars,
                   presser, inputVars, session, captured, sent, lost, stale>>

\* 160: if stream:
tg_stop_160(i) ==
    /\ sender[i].pc = "160"
    /\ SenderAt(i, IF tg_stream # None THEN "162" ELSE "177")
    /\ UNCHANGED <<fcVars, recVars, playbackVars, presser, inputVars, session,
                   captured, sent, lost, stale>>

\* 162: stream.stop() on what the global names now; an exception (the global
\* is None by now) is swallowed at line 164 and line 166 follows
tg_stop_162(i) ==
    /\ sender[i].pc = "162"
    /\ IF tg_stream = None
       THEN /\ UNCHANGED tg_streamState
            /\ SenderAt(i, "166")
       ELSE /\ tg_streamState' = [tg_streamState EXCEPT
                    ![tg_stream] = IF @ = "active" THEN "stopped" ELSE @]
            /\ SenderAt(i, "163")
    /\ UNCHANGED <<fcVars, tg_recording, tg_stream, audio_queue, playbackVars,
                   presser, inputVars, session, captured, sent, lost, stale>>

\* 163: stream.close()
tg_stop_163(i) ==
    /\ sender[i].pc = "163"
    /\ IF tg_stream = None
       THEN UNCHANGED tg_streamState
       ELSE tg_streamState' = [tg_streamState EXCEPT ![tg_stream] = "closed"]
    /\ SenderAt(i, "166")
    /\ UNCHANGED <<fcVars, tg_recording, tg_stream, audio_queue, playbackVars,
                   presser, inputVars, session, captured, sent, lost, stale>>

\* 166-169: stream = None; time.sleep(0.15)
tg_stop_166(i) ==
    /\ sender[i].pc = "166"
    /\ tg_stream' = None
    /\ SenderAt(i, "177")
    /\ UNCHANGED <<fcVars, tg_recording, tg_streamState, audio_queue, playbackVars,
                   presser, inputVars, session, captured, sent, lost, stale>>

tg_stop_recording(i) ==
    \/ tg_stop_155(i) \/ tg_stop_160(i) \/ tg_stop_162(i) \/ tg_stop_163(i)
    \/ tg_stop_166(i)

\* --------------------------------------------- send_audio_to_server, 172-193
\* 175-179: chunks.append(audio_queue.get_nowait()) until the queue is empty
send_177(i) ==
    /\ sender[i].pc = "177"
    /\ IF audio_queue # << >>
       THEN /\ sender' = [sender EXCEPT ![i].chunks = Append(@, Head(audio_queue))]
            /\ audio_queue' = Tail(audio_queue)
       ELSE /\ SenderAt(i, "181")
            /\ UNCHANGED audio_queue
    /\ UNCHANGED <<fcVars, tg_recording, tg_stream, tg_streamState, playbackVars,
                   presser, inputVars, session, captured, sent, lost, stale>>

\* The function returns: a stop_and_send thread ends, the main thread goes on
\* to line 269.
Return(i) ==
    sender' = [sender EXCEPT ![i] = [NotSending EXCEPT
                    !.pc = IF i = MainCaller THEN "270" ELSE "none"]]

\* 181-187: if not chunks: return; data = b''.join(chunks); the loop begins
send_181(i) ==
    /\ sender[i].pc = "181"
    /\ IF sender[i].chunks = << >>
       THEN Return(i)
       ELSE sender' = [sender EXCEPT ![i].pc = "188", ![i].at = 1]
    /\ UNCHANGED <<fcVars, recVars, playbackVars, presser, inputVars, session,
                   captured, sent, lost, stale>>

\* 187: the values of i the loop takes
Starts(i) == Range(Len(Join(sender[i].chunks)), chunk_size)

\* 188-189: sio.emit("audio_chunk", data[i:i+CHUNK_SIZE]); time.sleep(0.05):
\* one turn of the loop
send_188(i) ==
    /\ sender[i].pc = "188"
    /\ sent' = Append(sent, AudioChunk(Slice(Join(sender[i].chunks),
                                              Starts(i)[sender[i].at], chunk_size)))
    /\ sender' = IF sender[i].at < Len(Starts(i))
                 THEN [sender EXCEPT ![i].at = @ + 1]
                 ELSE [sender EXCEPT ![i].pc = "190"]
    /\ UNCHANGED <<fcVars, recVars, playbackVars, presser, inputVars, session,
                   captured, lost, stale>>

\* 190-191: sio.emit("audio_complete")
send_190(i) ==
    /\ sender[i].pc = "190"
    /\ sent' = Append(sent, AudioComplete)
    /\ Return(i)
    /\ UNCHANGED <<fcVars, recVars, playbackVars, presser, inputVars, session,
                   captured, lost, stale>>

\* 188 or 190, then 192-193: sio.emit raises, nothing goes out, the except
\* clause prints and the function returns
send_raises(i) ==
    /\ sender[i].pc \in {"188", "190"}
    /\ sender' = [sender EXCEPT ![i] = [NotSending EXCEPT
                    !.pc = IF i = MainCaller THEN "270" ELSE "none",
                    !.error = TRUE]]
    /\ UNCHANGED <<fcVars, recVars, playbackVars, presser, inputVars, session,
                   captured, sent, lost, stale>>

send_audio_to_server(i) == send_177(i) \/ send_181(i) \/ send_188(i) \/ send_190(i)

\* 196-198
stop_and_send(i) == tg_stop_recording(i) \/ send_audio_to_server(i)

\* --------------------------------------------------- on_server_audio, 68-97
\* 97: a server_audio message arrives and its play_audio thread starts
on_server_audio(a) ==
    /\ player[a] = "none"
    /\ player' = [player EXCEPT ![a] = "73"]
    /\ UNCHANGED <<fcVars, recVars, playing, playback_thread, device, presser,
                   sender, inputVars, session, captured, sent, lost, stale>>

\* 73-81: with _playback_lock: if _playing: sd.stop(); _playing = True;
\* _playback_thread = threading.current_thread()
play_73(a) ==
    /\ player[a] = "73"
    /\ device' = IF playing THEN None ELSE device
    /\ playing' = TRUE
    /\ playback_thread' = a
    /\ player' = [player EXCEPT ![a] = "86"]
    /\ UNCHANGED <<fcVars, recVars, presser, sender, inputVars, session, captured,
                   sent, lost, stale>>

\* 84-86: sd.play(audio_array): whatever was playing stops, this message plays
play_86(a) ==
    /\ player[a] = "86"
    /\ device' = a
    /\ player' = [player EXCEPT ![a] = "87"]
    /\ UNCHANGED <<fcVars, recVars, playing, playback_thread, presser, sender,
                   inputVars, session, captured, sent, lost, stale>>

\* 87: sd.wait() returns when the message has played to its end or sd.stop()
\* has been called
play_87(a) ==
    /\ player[a] = "87"
    /\ device' = IF device = a THEN None ELSE device
    /\ player' = [player EXCEPT ![a] = "91"]
    /\ UNCHANGED <<fcVars, recVars, playing, playback_thread, presser, sender,
                   inputVars, session, captured, sent, lost, stale>>

\* 90-93: with _playback_lock: _playing = False; _playback_thread = None
play_91(a) ==
    /\ player[a] = "91"
    /\ playing' = FALSE
    /\ playback_thread' = None
    /\ player' = [player EXCEPT ![a] = "done"]
    /\ UNCHANGED <<fcVars, recVars, device, presser, sender, inputVars, session,
                   captured, sent, lost, stale>>

play_audio(a) == play_73(a) \/ play_86(a) \/ play_87(a) \/ play_91(a)

\* ------------------------------------------------------ run_client, 234-274
\* 254-264: Ctrl+C interrupts the sleep of the main loop; the finally clause
\* closes the button (260) and calls stop_recording() in the main thread
tg_interrupt ==
    /\ sender[MainCaller].pc = "none"
    /\ sender' = [sender EXCEPT ![MainCaller].pc = "155"]
    /\ UNCHANGED <<fcVars, recVars, playbackVars, presser, inputVars, session,
                   captured, sent, lost, stale>>

\* 269-274: sio.disconnect(); sys.exit(0): the process is over, its daemon
\* threads with it
tg_exit ==
    /\ sender[MainCaller].pc = "270"
    /\ sender' = [sender EXCEPT ![MainCaller].pc = "exit"]
    /\ UNCHANGED <<fcVars, recVars, playbackVars, presser, inputVars, session,
                   captured, sent, lost, stale>>

tg_run_client ==
    \/ tg_interrupt
    \/ \E i \in {MainCaller} : stop_and_send(i)
    \/ tg_exit

\* ------------------------------------- specifications, client5_f4_button.py
\* The toggle button, the recordings and their uploads, the replies and
\* their playback, until the process is over.
TgAlive == sender[MainCaller].pc # "exit"

TgThreads ==
    /\ TgAlive
    /\ \/ tg_start_recording
       \/ \E i \in Senders : stop_and_send(i)
       \/ \E s \in TgStreams : tg_audio_callback(s)
       \/ \E a \in Audios : on_server_audio(a)
       \/ \E a \in Audios : play_audio(a)

ToggleNext ==
    \/ on_press_toggle
    \/ tg_run_client
    \/ TgThreads

ToggleSpec == Init /\ [][ToggleNext]_vars

\* send_audio_to_server on every queue of at most MaxFrames frames, with every
\* chunk size up to MaxChunkSize.
FrameSeqs == UNION {[1..n -> Frames] : n \in 0..MaxFrames}

ChunkInit ==
    /\ FcInit
    /\ TgIdle
    /\ audio_queue \in FrameSeqs
    /\ captured = audio_queue
    /\ chunk_size \in 1..MaxChunkSize
    /\ sender = [i \in Callers |->
            [NotSending EXCEPT !.pc = IF i = 1 THEN "177" ELSE "none"]]

\* The call runs to its end; each emit goes out or raises.
ChunkNext ==
    \/ send_audio_to_server(1)
    \/ send_raises(1)

ChunkSpec == ChunkInit /\ [][ChunkNext]_vars

\* ------------------------------------------------------------------ claims
ActiveStreams == {s \in Streams : streamState[s] = "active"}

Played == {written[i] : i \in 1..Len(written)}

ContextThenQuery == <<"ToggleContext", "StartQuery">>

ContextQueryStop == <<"ToggleContext", "StartQuery", "StopQuery">>

\* C1: after every transition of a sequence of StartQuery / StopQuery /
\* ToggleContext events taken one at a time, context_paused implies
\* context_active.
C1_PausedImpliesActive ==
    Quiet => (context_paused => context_active)

\* C2: in every reachable state, with the press and release handlers on
\* threads of their own, recording implies that playback_enabled is not set.
C2_RecordingExcludesPlayback ==
    recording => ~playback_enabled

\* A step in which start_recording returns: line 115, or after line 127.
StartRecordingReturns ==
    \E t \in Running : (recording /\ start_114(t)) \/ start_127(t)

\* C3: whenever start_recording returns, whatever the state it was called in,
\* playback_enabled is false at that moment.
C3_StartQueryDisablesPlayback ==
    [][StartRecordingReturns => ~playback_enabled']_vars

\* C4: a frame goes out as a context chunk only at a moment when recording is
\* false, and as a query chunk only at a moment when recording is true.
C4_RoutedByOneState ==
    /\ wire.last = "audio_chunk_context" => ~wire.rec
    /\ wire.last = "audio_chunk_query" => wire.rec

\* C5: no reply chunk that arrived, or was put on playback_queue, while
\* playback_enabled was clear is ever written to the output stream.
C5_DisabledChunkNeverPlayed ==
    \A c \in Played : chunkInfo[c].put \notin {"dropped", "queued_disabled"}

\* C6, as claimed: after ToggleContext(on), StartQuery, StopQuery from Idle with
\* no remote signal, context_active holds and context_paused does not.
C6_StopQueryResumesContext ==
    (hist = ContextQueryStop /\ Quiet) => (context_active /\ ~context_paused)

\* C7: from ToggleContext(on) through StartQuery and StopQuery the handle keeps
\* naming the stream ToggleContext(on) opened (the first stream object), and
\* that stream stays started.
C7_CaptureStaysArmed ==
    hist \in {ContextThenQuery, ContextQueryStop}
        => (stream = 1 /\ streamState[1] = "active")

\* C8: across all sequences of StartQuery, StopQuery and ToggleContext, at most
\* one capture stream is started and not yet closed.
C8_AtMostOneCaptureStream ==
    Cardinality(ActiveStreams) <= 1

\* C9: once a query has started with reply chunks waiting, and until a
\* StopQuery, playback_enabled stays clear and none of those chunks is written
\* to the output stream.
C9_WaitingChunksDiscarded ==
    \A c \in Chunks : chunkInfo[c].pre => (~playback_enabled /\ c \notin Played)

\* C10: between an audio_complete_query and the next StartQuery no
\* audio_chunk_query is emitted.
C10_NoQueryChunkAfterComplete ==
    ~(wire.qdone /\ wire.last = "audio_chunk_query")

\* C11: between an audio_complete_context and the next ToggleContext(on) no
\* audio_chunk_context is emitted, however the capture callback interleaves
\* with stop_context_recording.
C11_NoContextChunkAfterComplete ==
    ~(wire.cdone /\ wire.last = "audio_chunk_context")

\* A step in which a handler finds its precondition false: start_recording
\* during a query (114), stop_recording with no query (132).
StateConflict ==
    \E t \in Running : (recording /\ start_114(t)) \/ (~recording /\ stop_132(t))

\* C12: a StartQuery during a query and a StopQuery with no query change no
\* flag, neither the stream handle nor any stream, emit nothing, and their
\* handler has returned after that one step.
C12_StateConflictIsNoOp ==
    [][StateConflict =>
          /\ UNCHANGED <<recording, context_active, context_paused, playback_enabled,
                         stream, streamState, devlog, wire>>
          /\ BagCardinality(threads') = BagCardinality(threads) - 1]_vars

C12_Witness ==
    /\ hist = <<"StopQuery", "StartQuery", "StartQuery">>
    /\ Quiet
    /\ recording
    /\ ~playback_enabled
    /\ stream = 1
    /\ {s \in Streams : streamState[s] # "closed"} = {1}
    /\ wire.last = "stop_server_stream"

OpenStreams == {s \in Streams : streamState[s] # "closed"}

ToggleOnce == <<"ToggleContext">>

ToggleTwice == <<"ToggleContext", "ToggleContext">>

ToggleThrice == <<"ToggleContext", "ToggleContext", "ToggleContext">>

\* C14: from Idle with no query, ToggleContext(on), ToggleContext(off),
\* ToggleContext(on) open the capture device once, close it once and open it
\* once more, nothing else, and end with context_active and exactly one open
\* capture stream, the one the handle names.
C14_OneOpenOrClosePerToggle ==
    /\ hist = ToggleOnce
            => /\ devlog \in {<< >>, <<"open">>}
               /\ Quiet => devlog = <<"open">>
    /\ hist = ToggleTwice
            => /\ devlog \in {<<"open">>, <<"open", "close">>}
               /\ Quiet => devlog = <<"open", "close">>
    /\ hist = ToggleThrice
            => /\ devlog \in {<<"open", "close">>, <<"open", "close", "open">>}
               /\ Quiet => /\ devlog = <<"open", "close", "open">>
                           /\ context_active
                           /\ Cardinality(OpenStreams) = 1
                           /\ stream \in OpenStreams

C14_Witness ==
    /\ hist = ToggleThrice
    /\ Quiet
    /\ devlog = <<"open", "close", "open">>
    /\ context_active
    /\ stream \in OpenStreams

\* C18: a server_audio_complete that arrives while playback_enabled is clear
\* leaves context_paused as it was.
C18_ReplyCompleteNeedsPlayback ==
    [][(srv.pc = "55" /\ ~srv.enabled /\ complete_55) => UNCHANGED context_paused]_vars

\* C19: whenever no handler is running, recording and context_active together
\* imply context_paused.
C19_QueryPausesContext ==
    (Quiet /\ srv.pc = "idle") => (recording /\ context_active => context_paused)

NeedsCapture == recording \/ (context_active /\ ~context_paused)

\* C20: whenever no handler is running and a channel needs capture (a query is
\* recording, or the context is active and not paused), the handle names an
\* open capture stream.
C20_CaptureOpenWhenNeeded ==
    (Quiet /\ srv.pc = "idle" /\ NeedsCapture) => stream \in OpenStreams

\* The flags, whether the handle is set, and the number of open capture streams.
Outcome ==
    [recording |-> recording, context_active |-> context_active,
     context_paused |-> context_paused, playback_enabled |-> playback_enabled,
     handle |-> stream # None, nopen |-> Cardinality(OpenStreams)]

Orders(n) == {p \in [1..n -> 1..n] : \A i, j \in 1..n : p[i] = p[j] => i = j}

\* The outcomes of running the events of hist one after the other, in any order.
SequentialOutcomes ==
    {AtomicRun(AtomicInit, [i \in 1..Len(hist) |-> hist[p[i]]]) : p \in Orders(Len(hist))}

\* C17: once the concurrently running handlers of a set of events have all
\* returned, the flags and the number of open capture streams are those of
\* running the same events one after the other in some order.
C17_HandlersLinearizable ==
    (Quiet /\ srv.pc = "idle" /\ hist # Overflow) => Outcome \in SequentialOutcomes

\* With the events taken one at a time, the outcome is that of the handlers
\* run as one step each, in the order of the events.
AtomicAgrees ==
    (Quiet /\ srv.pc = "idle" /\ hist # Overflow) => Outcome = AtomicRun(AtomicInit, hist)

\* What the server puts together from the messages: the bytes of the chunks
\* received before each audio_complete.
RECURSIVE Reassemble(_, _)
Reassemble(msgs, bytes) ==
    IF msgs = << >> THEN << >>
    ELSE IF Head(msgs).type = "audio_complete"
         THEN <<bytes>> \o Reassemble(Tail(msgs), << >>)
         ELSE Reassemble(Tail(msgs), bytes \o Head(msgs).data)

SendReturned == sender[1].pc = "none"

\* The queued frames went out whole: chunks of 1 to chunk_size bytes, then one
\* audio_complete, and the chunks put together are the frames in capture order.
SentWhole ==
    /\ sent # << >>
    /\ sent[Len(sent)] = AudioComplete
    /\ \A k \in 1..(Len(sent) - 1) :
            /\ sent[k].type = "audio_chunk"
            /\ Len(sent[k].data) \in 1..chunk_size
    /\ Reassemble(sent, << >>) = <<Join(captured)>>

\* C13, as claimed: for every sequence of queued frames and every chunk size,
\* send_audio_to_server emits chunks of at most chunk_size bytes whose
\* concatenation is the concatenation of the frames, then one audio_complete.
C13_ChunksThenComplete ==
    SendReturned => SentWhole

\* An emit raised and the upload stopped there: every message that went out is
\* a chunk of 1 to chunk_size bytes, the chunks put together are the first
\* bytes of the frames in capture order, and no audio_complete went out.
SentPart ==
    /\ \A k \in 1..Len(sent) :
            /\ sent[k].type = "audio_chunk"
            /\ Len(sent[k].data) \in 1..chunk_size
    /\ LET got == Reassemble(Append(sent, AudioComplete), << >>)[1]
       IN  /\ Len(got) <= Len(Join(captured))
           /\ got = SubSeq(Join(captured), 1, Len(got))

\* C13, as amended: for every non-empty sequence of queued frames the chunks go
\* out in order, each of at most chunk_size bytes; when every emit returns they
\* are the whole of the frames and one audio_complete follows, and when an emit
\* raises they are the first bytes of the frames and no audio_complete
\* follows. For the empty sequence nothing is emitted, no audio_complete either.
C13_ChunksThenCompleteUnlessEmptyOrRaised ==
    SendReturned =>
        IF captured = << >> THEN sent = << >>
        ELSE IF sender[1].error THEN SentPart
        ELSE SentWhole

\* The statement kept to non-empty sequences of queued frames: chunks whose
\* concatenation is the frames, then one audio_complete.
QueuedThenComplete ==
    (SendReturned /\ captured # << >>) => SentWhole

\* An upload cut short by a raising emit, after its first chunk went out.
SentPartReached ==
    /\ SendReturned
    /\ sender[1].error
    /\ Len(captured) = 2
    /\ Len(sent) = 1

C13_Witness ==
    /\ SendReturned
    /\ ~sender[1].error
    /\ Len(captured) = 2
    /\ chunk_size = FrameLen + 1
    /\ Len(sent) = 3
    /\ SentWhole

\* C15: once start_recording has returned with recording set, no server_audio
\* message received before that call is playing.
C15_StartRecordingStopsPlayback ==
    (presser.pc = "idle" /\ tg_recording) => device \notin stale

\* C16: no captured frame is thrown away, and the bytes sent before each
\* audio_complete are the frames of one recording, all of them, in capture
\* order.
C16_SessionsSentWhole ==
    /\ lost = {}
    /\ \A b \in 1..Len(Reassemble(sent, << >>)) :
            \E k \in 1..session : Reassemble(sent, << >>)[b] = Join(InSession(k))

\* C21: whenever no handler is running and neither a query is recording nor
\* the context is active, no capture stream is open.
C21_IdleMeansNoOpenStream ==
    (Quiet /\ srv.pc = "idle" /\ ~recording /\ ~context_active) => OpenStreams = {}

Released == Pressed /\ ~held

\* C22: once button 1 has been pressed and released, and is not pressed again,
\* the client comes to recording = false with audio_complete_query sent.
C22_ReleaseEndsQuery ==
    Released ~> (~recording /\ wire.qdone)

\* C23: a reply chunk that was on the queue when a StartQuery arrived, and was
\* still unplayed when that query's StopQuery set playback_enabled again, is
\* never written to the output stream.
C23_NoStaleReplyAfterQuery ==
    \A c \in Played : chunkInfo[c].old # "kept"

\* C24: the chunks written to the output stream are chunks that were received
\* and queued, in the order of their arrival, each at most once.
C24_PlayedInArrivalOrder ==
    /\ \A i \in 1..Len(written) :
            chunkInfo[written[i]].put \in {"queued", "queued_disabled"}
    /\ \A i, j \in 1..Len(written) : i < j => written[i] < written[j]

C24_Witness ==
    /\ Len(written) = MaxChunks
    /\ written[1] = 1
    /\ written[MaxChunks] = MaxChunks

\* C25: when the playback worker fails to open its output stream, the wait of
\* lines 83-84 still ends and run_client comes to wait for control events.
C25_StartupEndsAfterOpenFailure ==
    (worker.pc = "76") ~> (main = "run")

\* C26: when the handler of a StartQuery or of a ToggleContext has ended
\* because the capture device failed to open, recording, context_active and
\* context_paused have the values the event met.
C26_FailedOpenLeavesFlags ==
    (Quiet /\ fault.open) => <<recording, context_active, context_paused>> = fault.snap

\* C27: a handler whose emit raised still runs to its end: a StartQuery ends
\* with recording set and playback disabled, a StopQuery with recording clear
\* and playback enabled, a ToggleContext that met an active context with
\* context_active clear.
C27_EmitFailureKeepsTransition ==
    (Quiet /\ fault.emit /\ ~fault.open) =>
        /\ fault.event = "StartQuery" => recording /\ ~playback_enabled
        /\ fault.event = "StopQuery" => ~recording /\ playback_enabled
        /\ fault.event = "ToggleContext" =>
                ~context_active /\ (recording \/ stream = None)

C27_Witness ==
    /\ Quiet
    /\ fault.emit
    /\ fault.event = "StopQuery"
    /\ ~recording
    /\ playback_enabled
    /\ ~wire.qdone

\* C28: when the process is over after the operator quit, recording,
\* context_active and playback_enabled are all clear, and the completion
\* marker of every channel that was active at the quit has been emitted.
C28_ShutdownEndsClean ==
    main = "exit" =>
        /\ ~recording
        /\ ~context_active
        /\ ~playback_enabled
        /\ fault.snap[1] => wire.qdone
        /\ fault.snap[2] => wire.cdone

====
